---- MODULE Spec2Model ----
(***************************************************************************)
(* Model of the encrypted bulk-storage engine in                           *)
(* packages/bulk-storage/bulk.js: the binary codec (FileRecord, Header,    *)
(* TableOfContents), the file it keeps on disk and the BulkStorage         *)
(* controller (create/open/add/get/delete/sync/close).                     *)
(*                                                                         *)
(* The file is a sequence of bytes.  A byte on disk is a 4-tuple           *)
(* <<k, n, j, v>>: a byte written in the clear is <<0, 0, 0, v>>, a byte   *)
(* of AES-CBC ciphertext is <<key id, iv id, position, padded plaintext    *)
(* byte>> and a byte of the RSA block of the header is <<-key pair,        *)
(* nonce, position, plaintext byte>>.  Random buffers (keys, IVs, UUIDs)   *)
(* are buffers filled with one value, which identifies them.               *)
(***************************************************************************)
EXTENDS Integers, Sequences, FiniteSets, TLC

\* ---------------------------------------------------------------- bounds
MaxAdds == 3        \* add calls of one run when the calls are serialized
MaxOverlapAdds == 2 \* add calls of one run when the calls may overlap
MaxInFlight == 2    \* add calls that may be pending at the same time
MaxInst == 2        \* BulkStorage instances constructed in one run
MaxPad == 0         \* values of the random fill of a sync
MaxStorages == 3    \* storages in the list handed to selectStorage
MaxRecords == 2     \* records in the table of such a storage
MaxTasks == 3       \* tasks added to one IOQueue
MaxAge == 2         \* milliseconds a started task is followed for
MaxTokens == 2      \* tokens a SessionManager hands out
MaxTimers == 3      \* timers a SessionManager sets (logins and refreshes)
MaxClock == 2500    \* milliseconds the clock of a SessionManager runs for
MaxCodecRecords == 2 \* records in the sequence handed to a codec function
MaxCodecFill == 1    \* values of the random fill of an image
MaxToggles == 3      \* toggles applied to one RecordFlags object

\* ------------------------------------------------------ program constants
RecordBinLength == 128
HeaderBinLength == 520
AesBlock == 16
TocInfoLength == 256
RsaBlockLength == 512
DELETED == 2
BUSY == 1
Gigabyte == 1073741824

Min(a, b) == IF a < b THEN a ELSE b
Max(a, b) == IF a > b THEN a ELSE b

Rep(n, v) == [i \in 1..n |-> v]

RECURSIVE BitXor(_, _)
BitXor(a, b) ==
    IF a = 0 /\ b = 0 THEN 0
    ELSE (((a % 2) + (b % 2)) % 2) + 2 * BitXor(a \div 2, b \div 2)

RECURSIVE BitAnd(_, _)
BitAnd(a, b) ==
    IF a = 0 \/ b = 0 THEN 0
    ELSE ((a % 2) * (b % 2)) + 2 * BitAnd(a \div 2, b \div 2)

\* ------------------------------------------------------------ byte buffers
Clear(v) == <<0, 0, 0, v>>
ClearSeq(s) == [i \in 1..Len(s) |-> Clear(s[i])]
ZeroByte == Clear(0)

\* Buffer.writeBigInt64LE / readBigInt64LE: two's complement, low byte first
RECURSIVE BytesLE(_, _)
BytesLE(v, n) ==
    IF n = 0 THEN <<>> ELSE <<v % 256>> \o BytesLE(v \div 256, n - 1)

Int64LE(v) == BytesLE(v, 8)

RECURSIVE ReadLE(_, _)
ReadLE(b, signed) ==
    IF Len(b) = 1
    THEN (IF signed /\ b[1] >= 128 THEN b[1] - 256 ELSE b[1])
    ELSE b[1] + 256 * ReadLE(Tail(b), signed)

ReadInt64LE(b) == ReadLE(b, TRUE)

\* Buffer.writeUInt16LE / readUint16LE
UInt16LE(v) == <<v % 256, (v \div 256) % 256>>
ReadUInt16LE(b) == b[1] + 256 * b[2]

\* ------------------------------------------------------------------- file
\* variant: a truncation that extends a short file and never cuts one
FtruncateNeverCuts(f, n) ==
    IF n <= Len(f) THEN f
    ELSE f \o Rep(n - Len(f), ZeroByte)

\* fs.ftruncateSync: cuts the file, or extends it with zero bytes
Ftruncate(f, n) ==
    IF n <= Len(f) THEN SubSeq(f, 1, n)
    ELSE f \o Rep(n - Len(f), ZeroByte)

\* fs.writeSync / a write of a WriteStream at a position: a write past the
\* end of the file leaves zero bytes in the gap
WriteAt(f, pos, data) ==
    LET g == IF pos > Len(f) THEN Ftruncate(f, pos) ELSE f
    IN  [i \in 1..Max(Len(g), pos + Len(data)) |->
            IF i > pos /\ i <= pos + Len(data) THEN data[i - pos] ELSE g[i]]

\* fs.readSync(fd, buffer, {position}) of n bytes: stops at the end of file
ReadAt(f, pos, n) == SubSeq(f, pos + 1, Min(pos + n, Len(f)))

\* fs.createReadStream(null, {fd, start, end}): both start and end are
\* inclusive offsets; the stream ends at the end of the file
ReadStream(f, start, end) == SubSeq(f, start + 1, Min(end + 1, Len(f)))

\* -------------------------------------------------------------- AES-256-CBC
BufId(buf) == IF Len(buf) = 0 THEN 0 ELSE buf[1]

Pkcs7Pad(pt) ==
    LET n == AesBlock - (Len(pt) % AesBlock) IN pt \o Rep(n, n)

\* createCipheriv(...).update(pt) followed by final()
AesEncrypt(pt, key, iv) ==
    LET p == Pkcs7Pad(pt)
    IN  [j \in 1..Len(p) |-> <<BufId(key), BufId(iv), j, p[j]>>]

CryptoFailure == [ok |-> FALSE, data |-> <<>>]

\* createDecipheriv(...).update(ct) followed by final(): fails on a length
\* that is not a whole number of blocks and on a bad padding
AesDecrypt(ct, key, iv) ==
    IF Len(ct) = 0 \/ Len(ct) % AesBlock # 0 THEN CryptoFailure
    ELSE IF \E j \in 1..Len(ct) :
                \/ ct[j][1] # BufId(key)
                \/ ct[j][2] # BufId(iv)
                \/ ct[j][3] # j
         THEN CryptoFailure
    ELSE LET p == [j \in 1..Len(ct) |-> ct[j][4]]
             n == p[Len(p)]
         IN  IF /\ n \in 1..AesBlock
                /\ \A j \in (Len(p) - n + 1)..Len(p) : p[j] = n
             THEN [ok |-> TRUE, data |-> SubSeq(p, 1, Len(p) - n)]
             ELSE CryptoFailure

\* --------------------------------------------------------------- RSA-4096
\* crypto.publicEncrypt of the 256-byte TOC info: a 512-byte block
RsaEncrypt(pt, pair, nonce) ==
    [j \in 1..RsaBlockLength |->
        <<0 - pair, nonce, j, IF j <= Len(pt) THEN pt[j] ELSE 0>>]

\* crypto.privateDecrypt with the private key of a pair
RsaDecrypt(ct, pair) ==
    IF /\ Len(ct) = RsaBlockLength
       /\ \A j \in 1..Len(ct) : ct[j][1] = 0 - pair /\ ct[j][3] = j
    THEN [ok |-> TRUE, data |-> [j \in 1..TocInfoLength |-> ct[j][4]]]
    ELSE CryptoFailure

\* ------------------------------------------------------------ RecordFlags
\* new RecordFlags(flags): flags ?? FlagState.NONE, with <<>> for no argument
RecordFlags(flags) == IF flags = <<>> THEN 0 ELSE flags[1]
isNormal(flags) == flags = 0
isBusy(flags) == BitAnd(flags, BUSY) > 0
\* variant: the DELETED test reads the BUSY bit
isDeletedReadsBusy(flags) == BitAnd(flags, BUSY) > 0
isDeleted(flags) == BitAnd(flags, DELETED) > 0
\* variant: the BUSY toggle sets the bit and never clears it
toggleBusyOnlySets(flags) == IF BitAnd(flags, BUSY) > 0 THEN flags ELSE flags + 1
toggleBusy(flags) == BitXor(flags, BUSY)
\* variant: the DELETED toggle clears the flags
toggleDeletedClears(flags) == 0
\* variant: the DELETED toggle flips the BUSY bit
toggleDeletedFlipsBusy(flags) == BitXor(flags, BUSY)
toggleDeleted(flags) == BitXor(flags, DELETED)

\* ------------------------------------------------------------- FileRecord
InvalidRecord == [ok |-> FALSE, rec |-> <<>>]

\* variant: a record whose start equals its end is accepted
FileRecordAllowsEmpty(uuid, start, end, iv, flags) ==
    IF start > end THEN [ok |-> FALSE, rec |-> <<>>]
    ELSE IF Len(iv) < 16 THEN [ok |-> FALSE, rec |-> <<>>]
    ELSE [ok |-> TRUE,
          rec |-> [uuid |-> uuid, start |-> start, end |-> end,
                   iv |-> iv, flags |-> flags]]

\* new FileRecord(uuid, start, end, iv, flags)
FileRecord(uuid, start, end, iv, flags) ==
    IF start >= end THEN InvalidRecord
    ELSE IF Len(iv) < 16 THEN InvalidRecord
    ELSE [ok |-> TRUE,
          rec |-> [uuid |-> uuid, start |-> start, end |-> end,
                   iv |-> iv, flags |-> flags]]

\* variant: the image of a record holds no flags
RecordToBinaryDropsFlags(r, fill) ==
    r.uuid \o Int64LE(r.start) \o Int64LE(r.end) \o r.iv
        \o UInt16LE(0) \o Rep(RecordBinLength - 50, fill)

\* FileRecord.prototype.toBinary; fill is the random fill of bytes 50..127
RecordToBinary(r, fill) ==
    r.uuid \o Int64LE(r.start) \o Int64LE(r.end) \o r.iv
        \o UInt16LE(r.flags) \o Rep(RecordBinLength - 50, fill)

\* variant: the end offset is decoded one byte too far
RecordFromEndOffByOne(buf) ==
    FileRecord(SubSeq(buf, 1, 16),
               ReadInt64LE(SubSeq(buf, 17, 24)),
               ReadInt64LE(SubSeq(buf, 25, 32)) + 1,
               SubSeq(buf, 33, 48),
               ReadUInt16LE(SubSeq(buf, 49, 50)))

\* FileRecord.from
RecordFrom(buf) ==
    FileRecord(SubSeq(buf, 1, 16),
               ReadInt64LE(SubSeq(buf, 17, 24)),
               ReadInt64LE(SubSeq(buf, 25, 32)),
               SubSeq(buf, 33, 48),
               ReadUInt16LE(SubSeq(buf, 49, 50)))

\* variant: every chunk is cut at the start of the buffer
RecordManyFirstChunk(buf) ==
    LET n == Len(buf) \div RecordBinLength
        chunk(i) == SubSeq(buf, 1, RecordBinLength)
    IN  IF \E i \in 1..n : ~RecordFrom(chunk(i)).ok
        THEN [ok |-> FALSE, recs |-> <<>>]
        ELSE [ok |-> TRUE, recs |-> [i \in 1..n |-> RecordFrom(chunk(i)).rec]]

\* FileRecord.many: byteLength/LEN chunks, a trailing partial chunk is left
\* out; any invalid chunk raises
RecordMany(buf) ==
    LET n == Len(buf) \div RecordBinLength
        chunk(i) == SubSeq(buf, (i - 1) * RecordBinLength + 1,
                           i * RecordBinLength)
    IN  IF \E i \in 1..n : ~RecordFrom(chunk(i)).ok
        THEN [ok |-> FALSE, recs |-> <<>>]
        ELSE [ok |-> TRUE, recs |-> [i \in 1..n |-> RecordFrom(chunk(i)).rec]]

\* -------------------------------------------------------- TableOfContents
RECURSIVE ConcatImages(_, _)
ConcatImages(toc, fill) ==
    IF Len(toc) = 0 THEN <<>>
    ELSE RecordToBinary(Head(toc), fill) \o ConcatImages(Tail(toc), fill)

\* variant: the last block of the cipher, cipher.final(), is left out
TocToBinaryWithoutFinal(toc, key, iv, fill) ==
    LET ct == AesEncrypt(ConcatImages(toc, fill), key, iv)
    IN  SubSeq(ct, 1, Len(ct) - AesBlock)

\* TableOfContents.toBinary
TocToBinary(toc, key, iv, fill) ==
    AesEncrypt(ConcatImages(toc, fill), key, iv)

\* TableOfContents.from
TocFrom(buf, key, iv) ==
    LET d == AesDecrypt(buf, key, iv)
    IN  IF d.ok THEN RecordMany(d.data) ELSE [ok |-> FALSE, recs |-> <<>>]

\* ----------------------------------------------------------------- Header
Magic == <<66, 85, 76, 75, 35>>       \* "BULK#"
Version == <<0, 16, 1>>               \* "001001" in hex

\* variant: the random fill starts at byte 56 and covers the TOC start
HeaderToBinaryFillsStart(h, pair, fill) ==
    ClearSeq(Magic) \o ClearSeq(Version)
        \o RsaEncrypt(h.key \o h.iv \o Rep(TocInfoLength - 48, fill),
                      pair, fill)

\* new Header(key, iv, start)
Header(key, iv, start) == [key |-> key, iv |-> iv, start |-> start]

\* Header.prototype.toBinary
HeaderToBinary(h, pair, fill) ==
    ClearSeq(Magic) \o ClearSeq(Version)
        \o RsaEncrypt(h.key \o h.iv \o Int64LE(h.start)
                          \o Rep(TocInfoLength - 56, fill),
                      pair, fill)

IncompatibleFile == [ok |-> FALSE, err |-> "IncompatibleFile", h |-> <<>>]

\* variant: the TOC info is decrypted before magic and version are compared
HeaderFromDecryptsFirst(data, pair) ==
    LET d == RsaDecrypt(SubSeq(data, 9, HeaderBinLength), pair)
    IN  IF ~d.ok
        THEN [ok |-> FALSE, err |-> "CryptoFailure", h |-> <<>>]
        ELSE IF Len(data) < 8 \/ SubSeq(data, 1, 5) # ClearSeq(Magic)
        THEN IncompatibleFile
        ELSE IF data[6][1] # 0 \/ data[6][4] \div 16 # 0
        THEN IncompatibleFile
        ELSE [ok |-> TRUE, err |-> "",
              h |-> [key |-> SubSeq(d.data, 1, 32),
                     iv |-> SubSeq(d.data, 33, 48),
                     start |-> ReadInt64LE(SubSeq(d.data, 49, 56))]]

\* Header.from
HeaderFrom(data, pair) ==
    IF Len(data) < 8 \/ SubSeq(data, 1, 5) # ClearSeq(Magic)
    THEN IncompatibleFile
    ELSE IF data[6][1] # 0 \/ data[6][4] \div 16 # 0
    THEN IncompatibleFile
    ELSE LET d == RsaDecrypt(SubSeq(data, 9, HeaderBinLength), pair)
         IN  IF ~d.ok
             THEN [ok |-> FALSE, err |-> "CryptoFailure", h |-> <<>>]
             ELSE [ok |-> TRUE, err |-> "",
                   h |-> [key |-> SubSeq(d.data, 1, 32),
                          iv |-> SubSeq(d.data, 33, 48),
                          start |-> ReadInt64LE(SubSeq(d.data, 49, 56))]]

\* ------------------------------------------------------------ BulkStorage
VARIABLES
    file,       \* the bytes of the storage file at path
    fd,         \* _fd of the instance: -1 once closed
    headers,    \* this.headers: key, iv and start (the TOC start, the tail)
    records,    \* this.records
    adds,       \* the pending add calls: stream and promise of each
    rnd,        \* random values drawn so far: IVs and UUIDs
    inst,       \* number of the BulkStorage instance
    last,       \* the last call that returned or settled, and its result
    preSize,    \* per UUID drawn: the file size when its add was called
                \* (0 once the record has left the table)
    gone,       \* UUIDs for which delete has returned true in this session
    held,       \* what a caller got from storage.records and still holds
    sel,        \* the last call of selectStorage: arguments and result
    ioq,        \* an IOQueue: its waiting tasks, the started ones, the timers
    ses,        \* a SessionManager: its tokens, its timers and the clock
    cod         \* the last call of a codec function: arguments and result

vars == <<file, fd, headers, records, adds, rnd, inst, last, preSize, gone,
          held, sel, ioq, ses, cod>>

\* the state outside the BulkStorage instance: a caller's reference and the
\* storage manager
aux == <<held, sel, ioq, ses, cod>>

\* no value of storage.records is held; selectStorage has not been called
NoHold == [has |-> FALSE, ref |-> "none", copy |-> <<>>]
NoSel == [storages |-> <<>>, config |-> <<>>, chosen |-> 0]
\* new IOQueue(): nothing waiting, nothing started
NewQueue == [waiting |-> <<>>, started |-> <<>>]
\* no codec function has been called
NoCodec == [op |-> "none", src |-> <<>>, img |-> <<>>, ret |-> <<>>]
\* new SessionManager(): no tokens, no timers, the clock at 0 ms
NewSessions == [now |-> 0, tokens |-> <<>>, timers |-> {}, issued |-> 0,
                grants |-> <<>>,
                ret |-> [op |-> "new", token |-> 0, ret |-> "none"]]

PublicKey == 1                      \* the RSA key pair of the tests
KeyPairs == {1, 2}
Fills == 0..MaxPad

\* the sources handed to add, in the order of the calls: the k-th call of a
\* run streams Source(k); odd ones fill less than one cipher block, even ones
\* exactly one (a second block of padding follows)
Source(k) == IF k % 2 = 1 THEN <<64 + k>> ELSE Rep(AesBlock, 64 + k)

\* variant: randomUUID returns the same value every time
UuidOfFixed(n) == Rep(16, 1)
UuidOf(n) == Rep(16, n)             \* crypto.randomUUID as a 16-byte buffer
IvOf(n) == Rep(16, n)               \* crypto.randomBytes(16)
KeyOf(n) == Rep(32, n)              \* crypto.pbkdf2Sync of random bytes
Uuids == {UuidOf(n) : n \in 1..MaxAdds}

\* variant: the closed test compares with descriptor 0
isClosedAtZero == fd = 0
isClosed == fd = -1

IdleSlot == [st |-> "idle", plain |-> <<>>, iv |-> <<>>, wstart |-> 0,
             written |-> 0, preLen |-> 0, preRecs |-> <<>>]

Pending(a) == adds[a].st \in {"writing", "stalled", "uncaught"}
Quiet == \A a \in 1..MaxInFlight : ~Pending(a)

\* how a call ended: "returned" or "raised" at the call, "resolved" or
\* "rejected" for the promise of add; ret is the value or the kind of error
Result(op, how, ret) == [op |-> op, how |-> how, ret |-> ret, uuid |-> <<>>]

\* records.find(record => record.uuid.compare(uuid) === 0)
FindIndex(recs, uuid) ==
    IF \E i \in 1..Len(recs) : recs[i].uuid = uuid
    THEN CHOOSE i \in 1..Len(recs) :
            /\ recs[i].uuid = uuid
            /\ \A j \in 1..(i - 1) : recs[j].uuid # uuid
    ELSE 0

\* variant: splice(0, 1), the first record is removed whatever the index
SpliceFirst(recs, index) == Tail(recs)

\* Array.prototype.splice(index, 1)
Splice(recs, index) ==
    [i \in 1..(Len(recs) - 1) |-> IF i < index THEN recs[i] ELSE recs[i + 1]]

\* variant: sync appends the TOC at the end of the file
SyncFileAppends(f, h, recs, fill) ==
    LET f2 == WriteAt(f, Len(f), TocToBinary(recs, h.key, h.iv, fill))
    IN  WriteAt(f2, 0, HeaderToBinary(h, PublicKey, fill))

\* the file after BulkStorage.prototype.sync
SyncFile(f, h, recs, fill) ==
    LET f1 == Ftruncate(f, h.start)
        f2 == WriteAt(f1, h.start, TocToBinary(recs, h.key, h.iv, fill))
    IN  WriteAt(f2, 0, HeaderToBinary(h, PublicKey, fill))

\* variant: the header of a new storage puts the TOC at offset 0
CreateHeaderAtZero(n) ==
    [key |-> KeyOf(n), iv |-> IvOf(100 + n), start |-> 0]

\* BulkStorage.create on a path: openSync(path, 'w+') empties the file
CreateHeader(n) ==
    [key |-> KeyOf(n), iv |-> IvOf(100 + n), start |-> HeaderBinLength]

Init ==
    \E fill \in Fills :
        /\ file = SyncFile(<<>>, CreateHeader(1), <<>>, fill)
        /\ fd = 3
        /\ headers = CreateHeader(1)
        /\ records = <<>>
        /\ adds = [a \in 1..MaxInFlight |-> IdleSlot]
        /\ rnd = 0
        /\ inst = 1
        /\ last = Result("create", "returned", "ok")
        /\ preSize = <<>>
        /\ gone = {}
        /\ held = NoHold
        /\ sel = NoSel
        /\ ioq = NewQueue
        /\ ses = NewSessions
        /\ cod = NoCodec

Create ==
    /\ isClosed /\ Quiet /\ inst < MaxInst
    /\ \E fill \in Fills :
        file' = SyncFile(<<>>, CreateHeader(inst + 1), <<>>, fill)
    /\ fd' = 3
    /\ headers' = CreateHeader(inst + 1)
    /\ records' = <<>>
    /\ inst' = inst + 1
    /\ last' = Result("create", "returned", "ok")
    /\ preSize' = [u \in 1..Len(preSize) |-> 0]
    /\ gone' = {}
    /\ UNCHANGED <<adds, rnd>>

\* variant: open leaves the persisted table in the file
OpenKeepsToc ==
    /\ isClosed /\ Quiet /\ inst < MaxInst
    /\ \E pair \in KeyPairs :
        LET h == HeaderFrom(ReadAt(file, 0, HeaderBinLength), pair)
            toclen == Len(file) - h.h.start
            toc == TocFrom(ReadAt(file, h.h.start, toclen), h.h.key, h.h.iv)
        IN  IF ~h.ok
            THEN /\ last' = Result("open", "raised", h.err)
                 /\ UNCHANGED <<file, fd, headers, records, inst, gone>>
            ELSE IF toclen < 0
            THEN /\ last' = Result("open", "raised", "IOFailure")
                 /\ UNCHANGED <<file, fd, headers, records, inst, gone>>
            ELSE IF ~toc.ok
            THEN /\ last' = Result("open", "raised", "CryptoFailure")
                 /\ UNCHANGED <<file, fd, headers, records, inst, gone>>
            ELSE /\ UNCHANGED file
                 /\ fd' = 3
                 /\ headers' = h.h
                 /\ records' = toc.recs
                 /\ inst' = inst + 1
                 /\ last' = Result("open", "returned", "ok")
                 /\ gone' = {}
    /\ UNCHANGED <<adds, rnd, preSize>>

\* variant: open cuts the file at tocStart before it decodes the table
OpenCutsFirst ==
    /\ isClosed /\ Quiet /\ inst < MaxInst
    /\ \E pair \in KeyPairs :
        LET h == HeaderFrom(ReadAt(file, 0, HeaderBinLength), pair)
            toclen == Len(file) - h.h.start
            toc == TocFrom(ReadAt(file, h.h.start, toclen), h.h.key, h.h.iv)
        IN  IF ~h.ok
            THEN /\ last' = Result("open", "raised", h.err)
                 /\ UNCHANGED <<file, fd, headers, records, inst, gone>>
            ELSE IF toclen < 0
            THEN /\ last' = Result("open", "raised", "IOFailure")
                 /\ UNCHANGED <<file, fd, headers, records, inst, gone>>
            ELSE IF ~toc.ok
            THEN /\ last' = Result("open", "raised", "CryptoFailure")
                 /\ file' = Ftruncate(file, h.h.start)
                 /\ UNCHANGED <<fd, headers, records, inst, gone>>
            ELSE /\ file' = Ftruncate(file, h.h.start)
                 /\ fd' = 3
                 /\ headers' = h.h
                 /\ records' = toc.recs
                 /\ inst' = inst + 1
                 /\ last' = Result("open", "returned", "ok")
                 /\ gone' = {}
    /\ UNCHANGED <<adds, rnd, preSize>>

\* BulkStorage.open
Open ==
    /\ isClosed /\ Quiet /\ inst < MaxInst
    /\ \E pair \in KeyPairs :
        LET h == HeaderFrom(ReadAt(file, 0, HeaderBinLength), pair)
            toclen == Len(file) - h.h.start
            toc == TocFrom(ReadAt(file, h.h.start, toclen), h.h.key, h.h.iv)
        IN  IF ~h.ok
            THEN /\ last' = Result("open", "raised", h.err)
                 /\ UNCHANGED <<file, fd, headers, records, inst, gone>>
            ELSE IF toclen < 0
            THEN /\ last' = Result("open", "raised", "IOFailure")
                 /\ UNCHANGED <<file, fd, headers, records, inst, gone>>
            ELSE IF ~toc.ok
            THEN /\ last' = Result("open", "raised", "CryptoFailure")
                 /\ UNCHANGED <<file, fd, headers, records, inst, gone>>
            ELSE /\ file' = Ftruncate(file, h.h.start)
                 /\ fd' = 3
                 /\ headers' = h.h
                 /\ records' = toc.recs
                 /\ inst' = inst + 1
                 /\ last' = Result("open", "returned", "ok")
                 /\ gone' = {}
    /\ UNCHANGED <<adds, rnd, preSize>>

\* BulkStorage.prototype.close
Close ==
    /\ IF isClosed
       THEN /\ last' = Result("close", "raised", "IOFailure")
            /\ UNCHANGED fd
       ELSE /\ fd' = -1
            /\ last' = Result("close", "returned", "ok")
    /\ UNCHANGED <<file, headers, records, adds, rnd, inst, preSize, gone>>

\* BulkStorage.prototype.sync
Sync ==
    /\ IF isClosed
       THEN /\ last' = Result("sync", "raised", "StorageClosed")
            /\ UNCHANGED file
       ELSE /\ \E fill \in Fills :
                file' = SyncFile(file, headers, records, fill)
            /\ last' = Result("sync", "returned", "ok")
    /\ UNCHANGED <<fd, headers, records, adds, rnd, inst, preSize, gone>>

\* BulkStorage.prototype.add up to the promise it returns: the cipher, the
\* write stream positioned at headers.start and the pipe
AddCall(limit) ==
        IF isClosed
        THEN /\ last' = Result("add", "rejected", "StorageClosed")
             /\ UNCHANGED <<file, fd, headers, records, adds, rnd, inst,
                            preSize, gone>>
        ELSE /\ rnd < limit
             /\ \E a \in 1..MaxInFlight :
                    /\ adds[a].st = "idle"
                    /\ \A b \in 1..(a - 1) : adds[b].st # "idle"
                    /\ adds' = [adds EXCEPT ![a] =
                            [st |-> "writing", plain |-> Source(rnd + 1),
                             iv |-> IvOf(rnd + 1), wstart |-> headers.start,
                             written |-> 0, preLen |-> Len(file),
                             preRecs |-> records]]
             /\ rnd' = rnd + 1
             /\ UNCHANGED <<file, fd, headers, records, inst, last, preSize,
                            gone>>

\* the ciphertext the cipher of an add emits for its source
Ciphertext(a) == AesEncrypt(adds[a].plain, headers.key, adds[a].iv)

\* variant: the handlers reject without truncating the file
AbortKeepsBytes(a) ==
    IF isClosed
    THEN /\ adds' = [adds EXCEPT ![a].st = "uncaught"]
         /\ UNCHANGED <<file, last>>
    ELSE /\ UNCHANGED file
         /\ adds' = [adds EXCEPT ![a] = IdleSlot]
         /\ last' = Result("add", "rejected", "WriteAborted")

\* what the 'error' and 'close' handlers of add do
Abort(a) ==
    IF isClosed
    THEN \* ftruncateSync(-1) raises inside the handler: never settled
         /\ adds' = [adds EXCEPT ![a].st = "uncaught"]
         /\ UNCHANGED <<file, last>>
    ELSE /\ file' = Ftruncate(file, headers.start)
         /\ adds' = [adds EXCEPT ![a] = IdleSlot]
         /\ last' = Result("add", "rejected", "WriteAborted")

\* one chunk of ciphertext reaches the write stream: a cipher block is
\* counted (the 'data' handler) and written at the position of the stream
AddWrite(a) ==
    /\ adds[a].st = "writing"
    /\ adds[a].written < Len(Ciphertext(a))
    /\ IF isClosed
       THEN Abort(a)       \* the write fails on the closed descriptor
       ELSE /\ file' = WriteAt(file, adds[a].wstart + adds[a].written,
                        SubSeq(Ciphertext(a), adds[a].written + 1,
                               adds[a].written + AesBlock))
            /\ adds' = [adds EXCEPT ![a].written = @ + AesBlock]
            /\ UNCHANGED last
    /\ UNCHANGED <<fd, headers, records, rnd, inst, preSize, gone>>

\* variant: the finish handler appends the record and leaves the tail
AddFinishKeepsTail(a) ==
    /\ adds[a].st = "writing"
    /\ adds[a].written = Len(Ciphertext(a))
    /\ LET r == FileRecord(UuidOf(Len(preSize) + 1), headers.start,
                           headers.start + adds[a].written, adds[a].iv, 0)
       IN  /\ r.ok
           /\ records' = Append(records, r.rec)
           /\ UNCHANGED headers
           /\ last' = Result("add", "resolved", "record")
           /\ preSize' = Append(preSize, adds[a].preLen)
    /\ adds' = [adds EXCEPT ![a] = IdleSlot]
    /\ UNCHANGED <<file, fd, rnd, inst, gone>>

\* variant: the record starts at the offset the write stream was opened at
AddFinishAtCallStart(a) ==
    /\ adds[a].st = "writing"
    /\ adds[a].written = Len(Ciphertext(a))
    /\ LET r == FileRecord(UuidOf(Len(preSize) + 1), adds[a].wstart,
                           adds[a].wstart + adds[a].written, adds[a].iv, 0)
       IN  /\ r.ok
           /\ records' = Append(records, r.rec)
           /\ headers' = [headers EXCEPT !.start = r.rec.end]
           /\ last' = Result("add", "resolved", "record")
           /\ preSize' = Append(preSize, adds[a].preLen)
    /\ adds' = [adds EXCEPT ![a] = IdleSlot]
    /\ UNCHANGED <<file, fd, rnd, inst, gone>>

\* variant: the finish handler counts one cipher block too many
AddFinishCountsBlock(a) ==
    /\ adds[a].st = "writing"
    /\ adds[a].written = Len(Ciphertext(a))
    /\ LET r == FileRecord(UuidOf(Len(preSize) + 1), headers.start,
                           headers.start + adds[a].written + AesBlock,
                           adds[a].iv, 0)
       IN  /\ r.ok
           /\ records' = Append(records, r.rec)
           /\ headers' = [headers EXCEPT !.start = r.rec.end]
           /\ last' = Result("add", "resolved", "record")
           /\ preSize' = Append(preSize, adds[a].preLen)
    /\ adds' = [adds EXCEPT ![a] = IdleSlot]
    /\ UNCHANGED <<file, fd, rnd, inst, gone>>

\* writer.once("finish", ...)
AddFinish(a) ==
    /\ adds[a].st = "writing"
    /\ adds[a].written = Len(Ciphertext(a))
    /\ LET r == FileRecord(UuidOf(Len(preSize) + 1), headers.start,
                           headers.start + adds[a].written, adds[a].iv, 0)
       IN  /\ r.ok
           /\ records' = Append(records, r.rec)
           /\ headers' = [headers EXCEPT !.start = r.rec.end]
           /\ last' = Result("add", "resolved", "record")
           /\ preSize' = Append(preSize, adds[a].preLen)
    /\ adds' = [adds EXCEPT ![a] = IdleSlot]
    /\ UNCHANGED <<file, fd, rnd, inst, gone>>

\* writer.once("error", ...) and writer.once("close", ...) before finish
AddFail(a) ==
    /\ adds[a].st = "writing"
    /\ Abort(a)
    /\ UNCHANGED <<fd, headers, records, rnd, inst, preSize, gone>>

\* the source errors or is destroyed before it ended: pipe() unpipes it and
\* ends nothing, the cipher and the writer stay open
SourceDrop(a) ==
    /\ adds[a].st = "writing"
    /\ adds[a].written < Len(Ciphertext(a))
    /\ adds' = [adds EXCEPT ![a].st = "stalled"]
    /\ UNCHANGED <<file, fd, headers, records, rnd, inst, last, preSize, gone>>

\* the stream get builds for a record, read to its end: the bytes the
\* ranged reader takes from the file go through the decipher; lo and hi
\* bound the offsets the reader touched (hi is one past the last)
ReadRecord(f, key, r) ==
    LET bytes == ReadStream(f, r.start, r.end)
        d == AesDecrypt(bytes, key, r.iv)
    IN  [ret |-> IF d.ok THEN "data" ELSE "error", data |-> d.data,
         lo |-> r.start, hi |-> r.start + Len(bytes)]

\* BulkStorage.prototype.get
GetStream(uuid) ==
    LET i == FindIndex(records, uuid) IN
    IF isClosed
    THEN [ret |-> "StorageClosed", data |-> <<>>, lo |-> 0, hi |-> 0]
    ELSE IF i = 0
    THEN [ret |-> "null", data |-> <<>>, lo |-> 0, hi |-> 0]
    ELSE IF isDeleted(records[i].flags)
    THEN [ret |-> "null", data |-> <<>>, lo |-> 0, hi |-> 0]
    ELSE ReadRecord(file, headers.key, records[i])

Get(uuid) ==
    /\ last' = Result("get",
                IF GetStream(uuid).ret = "StorageClosed" THEN "raised"
                ELSE "returned", GetStream(uuid).ret)
    /\ UNCHANGED <<file, fd, headers, records, adds, rnd, inst, preSize, gone>>

\* variant: delete takes the tail branch for every record
DeleteAlwaysCuts(uuid) ==
    LET i == FindIndex(records, uuid) IN
    IF isClosed
    THEN /\ last' = [Result("delete", "raised", "StorageClosed") EXCEPT !.uuid = uuid]
         /\ UNCHANGED <<file, fd, headers, records, adds, rnd, inst,
                        preSize, gone>>
    ELSE IF i = 0
    THEN /\ last' = [Result("delete", "returned", "false") EXCEPT !.uuid = uuid]
         /\ UNCHANGED <<file, fd, headers, records, adds, rnd, inst,
                        preSize, gone>>
    ELSE IF isDeleted(records[i].flags)
    THEN /\ last' = [Result("delete", "returned", "false") EXCEPT !.uuid = uuid]
         /\ UNCHANGED <<file, fd, headers, records, adds, rnd, inst,
                        preSize, gone>>
    ELSE /\ headers' = [headers EXCEPT !.start = records[i].start]
         /\ file' = Ftruncate(file, records[i].start)
         /\ records' = Splice(records, FindIndex(records, uuid))
         /\ preSize' = [preSize EXCEPT ![BufId(uuid)] = 0]
         /\ last' = [Result("delete", "returned", "true") EXCEPT !.uuid = uuid]
         /\ gone' = gone \cup {uuid}
         /\ UNCHANGED <<fd, adds, rnd, inst>>

\* variant: the tail branch takes the record out of the table only
DeleteKeepsTail(uuid) ==
    LET i == FindIndex(records, uuid) IN
    IF isClosed
    THEN /\ last' = [Result("delete", "raised", "StorageClosed") EXCEPT !.uuid = uuid]
         /\ UNCHANGED <<file, fd, headers, records, adds, rnd, inst,
                        preSize, gone>>
    ELSE IF i = 0
    THEN /\ last' = [Result("delete", "returned", "false") EXCEPT !.uuid = uuid]
         /\ UNCHANGED <<file, fd, headers, records, adds, rnd, inst,
                        preSize, gone>>
    ELSE IF isDeleted(records[i].flags)
    THEN /\ last' = [Result("delete", "returned", "false") EXCEPT !.uuid = uuid]
         /\ UNCHANGED <<file, fd, headers, records, adds, rnd, inst,
                        preSize, gone>>
    ELSE /\ IF records[i].end = headers.start
            THEN /\ UNCHANGED <<headers, file>>
                 /\ records' = Splice(records, FindIndex(records, uuid))
                 /\ preSize' = [preSize EXCEPT ![BufId(uuid)] = 0]
            ELSE /\ records' = [records EXCEPT ![i].flags = toggleDeleted(@)]
                 /\ UNCHANGED <<file, headers, preSize>>
         /\ last' = [Result("delete", "returned", "true") EXCEPT !.uuid = uuid]
         /\ gone' = gone \cup {uuid}
         /\ UNCHANGED <<fd, adds, rnd, inst>>

\* BulkStorage.prototype.delete
Delete(uuid) ==
    LET i == FindIndex(records, uuid) IN
    IF isClosed
    THEN /\ last' = [Result("delete", "raised", "StorageClosed") EXCEPT !.uuid = uuid]
         /\ UNCHANGED <<file, fd, headers, records, adds, rnd, inst,
                        preSize, gone>>
    ELSE IF i = 0
    THEN /\ last' = [Result("delete", "returned", "false") EXCEPT !.uuid = uuid]
         /\ UNCHANGED <<file, fd, headers, records, adds, rnd, inst,
                        preSize, gone>>
    ELSE IF isDeleted(records[i].flags)
    THEN /\ last' = [Result("delete", "returned", "false") EXCEPT !.uuid = uuid]
         /\ UNCHANGED <<file, fd, headers, records, adds, rnd, inst,
                        preSize, gone>>
    ELSE /\ IF records[i].end = headers.start
            THEN /\ headers' = [headers EXCEPT !.start = records[i].start]
                 /\ file' = Ftruncate(file, records[i].start)
                 /\ records' = Splice(records, FindIndex(records, uuid))
                 /\ preSize' = [preSize EXCEPT ![BufId(uuid)] = 0]
            ELSE /\ records' = [records EXCEPT ![i].flags = toggleDeleted(@)]
                 /\ UNCHANGED <<file, headers, preSize>>
         /\ last' = [Result("delete", "returned", "true") EXCEPT !.uuid = uuid]
         /\ gone' = gone \cup {uuid}
         /\ UNCHANGED <<fd, adds, rnd, inst>>

Next ==
    \/ Create /\ UNCHANGED aux
    \/ Open /\ UNCHANGED aux
    \/ Close /\ UNCHANGED aux
    \/ Sync /\ UNCHANGED aux
    \/ AddCall(MaxOverlapAdds) /\ UNCHANGED aux
    \/ \E a \in 1..MaxInFlight : AddWrite(a) /\ UNCHANGED aux
    \/ \E a \in 1..MaxInFlight : AddFinish(a) /\ UNCHANGED aux
    \/ \E a \in 1..MaxInFlight : AddFail(a) /\ UNCHANGED aux
    \/ \E a \in 1..MaxInFlight : SourceDrop(a) /\ UNCHANGED aux
    \/ \E uuid \in Uuids : Get(uuid) /\ UNCHANGED aux
    \/ \E uuid \in Uuids : Delete(uuid) /\ UNCHANGED aux

Spec == Init /\ [][Next]_vars

\* The callers of section 5: every mutating call (add, delete, sync, close,
\* open, create) waits for the add before it to settle; get is free
SerialNext ==
    \/ Quiet /\ Create /\ UNCHANGED aux
    \/ Quiet /\ Open /\ UNCHANGED aux
    \/ Quiet /\ Close /\ UNCHANGED aux
    \/ Quiet /\ Sync /\ UNCHANGED aux
    \/ Quiet /\ AddCall(MaxAdds) /\ UNCHANGED aux
    \/ Quiet /\ \E uuid \in Uuids : Delete(uuid) /\ UNCHANGED aux
    \/ \E a \in 1..MaxInFlight : AddWrite(a) /\ UNCHANGED aux
    \/ \E a \in 1..MaxInFlight : AddFinish(a) /\ UNCHANGED aux
    \/ \E a \in 1..MaxInFlight : AddFail(a) /\ UNCHANGED aux
    \/ \E a \in 1..MaxInFlight : SourceDrop(a) /\ UNCHANGED aux
    \/ \E uuid \in Uuids : Get(uuid) /\ UNCHANGED aux

SpecSerial == Init /\ [][SerialNext]_vars

\* --------------------------------------------------- callers of .records
\* the fields of the BulkStorage instance and its file
storage == <<file, fd, headers, records, adds, rnd, inst, last, preSize, gone>>

\* the value of the property records: defineProperties gives it the one
\* array built at construction ([...toc]); add pushes to that array and
\* delete splices it, so a reader receives the table itself, not a copy
RecordsGetter == [has |-> TRUE, ref |-> "table", copy |-> <<>>]

\* the entries seen through a value obtained from .records
Deref(h) == IF h.ref = "table" THEN records ELSE h.copy

\* const held = storage.records
TakeRecords ==
    /\ ~held.has
    /\ held' = RecordsGetter
    /\ UNCHANGED <<storage, sel, ioq, ses, cod>>

\* the caller lets go of the value
DropRecords ==
    /\ held.has
    /\ held' = NoHold
    /\ UNCHANGED <<storage, sel, ioq, ses, cod>>

\* held.pop(): the caller removes the last entry of the value it holds
CallerPop ==
    /\ held.has /\ Len(Deref(held)) >= 1
    /\ IF held.ref = "table"
       THEN /\ records' = SubSeq(records, 1, Len(records) - 1)
            /\ UNCHANGED held
       ELSE /\ held' = [held EXCEPT !.copy = SubSeq(@, 1, Len(@) - 1)]
            /\ UNCHANGED records
    /\ UNCHANGED <<file, fd, headers, adds, rnd, inst, last, preSize, gone, sel,
                 ioq, ses, cod>>

\* held.push(held[0]): the caller appends an entry to the value it holds
CallerPush ==
    /\ held.has /\ Len(Deref(held)) >= 1 /\ Len(Deref(held)) < MaxAdds
    /\ IF held.ref = "table"
       THEN /\ records' = Append(records, records[1])
            /\ UNCHANGED held
       ELSE /\ held' = [held EXCEPT !.copy = Append(@, @[1])]
            /\ UNCHANGED records
    /\ UNCHANGED <<file, fd, headers, adds, rnd, inst, last, preSize, gone, sel,
                 ioq, ses, cod>>

\* serialized calls on one storage, with a caller that reads .records and
\* changes what it got
RecordsNext ==
    \/ Quiet /\ AddCall(MaxOverlapAdds) /\ UNCHANGED aux
    \/ \E a \in 1..MaxInFlight : AddWrite(a) /\ UNCHANGED aux
    \/ \E a \in 1..MaxInFlight : AddFinish(a) /\ UNCHANGED aux
    \/ \E a \in 1..MaxInFlight : AddFail(a) /\ UNCHANGED aux
    \/ Quiet /\ \E uuid \in Uuids : Delete(uuid) /\ UNCHANGED aux
    \/ Quiet /\ Sync /\ UNCHANGED aux
    \/ \E uuid \in Uuids : Get(uuid) /\ UNCHANGED aux
    \/ TakeRecords
    \/ DropRecords
    \/ CallerPop
    \/ CallerPush

SpecRecords == Init /\ [][RecordsNext]_vars

\* ------------------------------------------------- files found at the path
\* values a foreign or damaged file holds at offset k - 1: the first byte of
\* the magic ("B" or "b") and the first byte of the version (major 0 or not)
HeadBytes(k) == IF k = 1 THEN {66, 98} ELSE {0, 15, 16}

\* between two sessions the file at the path is replaced by one that
\* differs in a byte of the magic or of the version
Tamper ==
    /\ isClosed /\ Quiet
    /\ \E k \in {1, 6} : \E v \in HeadBytes(k) :
          /\ file[k] # Clear(v)
          /\ file' = [file EXCEPT ![k] = Clear(v)]
    /\ UNCHANGED <<fd, headers, records, adds, rnd, inst, last, preSize, gone>>

\* serialized calls on a path whose file may be replaced while it is closed
OpenNext ==
    \/ Tamper /\ UNCHANGED aux
    \/ Quiet /\ Open /\ UNCHANGED aux
    \/ Quiet /\ Close /\ UNCHANGED aux
    \/ Quiet /\ Sync /\ UNCHANGED aux
    \/ Quiet /\ AddCall(MaxOverlapAdds) /\ UNCHANGED aux
    \/ \E a \in 1..MaxInFlight : AddWrite(a) /\ UNCHANGED aux
    \/ \E a \in 1..MaxInFlight : AddFinish(a) /\ UNCHANGED aux
    \/ Quiet /\ \E uuid \in Uuids : Delete(uuid) /\ UNCHANGED aux

SpecOpen == Init /\ [][OpenNext]_vars

\* ---------------------------------------------------------- selectStorage
\* a storage, as selectStorage reads it, is the list of the lengths
\* (end - start) of the records of its table, DELETED ones included
Sizes == {AesBlock, Gigabyte \div 2}
Tables == UNION {[1..n -> Sizes] : n \in 0..MaxRecords}
StorageLists == UNION {[1..n -> Tables] : n \in 1..MaxStorages}
Configs == [maxSize : 1..2, maxFileCount : 1..(MaxRecords + 1),
            fillPolicy : {"fill", "spread"}]

\* records.reduce((prev, record) => prev + record.length(), 0n)
RECURSIVE TotalLength(_)
TotalLength(recs) ==
    IF Len(recs) = 0 THEN 0 ELSE Head(recs) + TotalLength(Tail(recs))

\* storages.map(storage => ({storage, length, count})): the storage is
\* named by its position in the list, the length is in whole gigabytes
StoragesInfo(storages) ==
    [i \in 1..Len(storages) |->
        [storage |-> i,
         length |-> TotalLength(storages[i]) \div Gigabyte,
         count |-> Len(storages[i])]]

\* the callback of storagesInfo.reduce
Prefer(prev, info, config) ==
    IF info.count < config.maxFileCount /\ info.length < config.maxSize
    THEN IF /\ config.fillPolicy = "fill"
            /\ \/ info.length > prev.length
               \/ (info.length = prev.length /\ info.count > prev.count)
         THEN info
         ELSE IF /\ config.fillPolicy = "spread"
                 /\ \/ info.length < prev.length
                    \/ (info.length = prev.length /\ info.count < prev.count)
         THEN info
         ELSE prev
    ELSE prev

\* storagesInfo.reduce(callback, initial): every element from the first on
RECURSIVE Reduce(_, _, _)
Reduce(infos, prev, config) ==
    IF Len(infos) = 0 THEN prev
    ELSE Reduce(Tail(infos), Prefer(prev, Head(infos), config), config)

\* selectStorage(storages, config): the position of the storage returned
selectStorage(storages, config) ==
    LET storagesInfo == StoragesInfo(storages)
        chosen == Reduce(storagesInfo, storagesInfo[1], config)
    IN  chosen.storage

\* a call of selectStorage, as addFile makes it
SelectCall ==
    /\ sel = NoSel
    /\ \E storages \in StorageLists : \E config \in Configs :
          sel' = [storages |-> storages, config |-> config,
                  chosen |-> selectStorage(storages, config)]
    /\ UNCHANGED <<storage, held, ioq, ses, cod>>

\* addFile has used the storage returned
SelectDone ==
    /\ sel # NoSel
    /\ sel' = NoSel
    /\ UNCHANGED <<storage, held, ioq, ses, cod>>

SelectNext ==
    \/ SelectCall
    \/ SelectDone

SpecSelect == Init /\ [][SelectNext]_vars

\* ------------------------------------------------------------------ claims
Slots == 1..MaxInFlight
Live(recs) == {i \in 1..Len(recs) : ~isDeleted(recs[i].flags)}
\* the source that was streamed into the add that drew this record's IV
SourceOf(r) == Source(BufId(r.iv))

\* C1: blob round-trip.  Whenever the storage is open, get of every live
\* record, read to its end, yields exactly the plaintext its add was given -
\* whatever was added or deleted around it and whether or not sync has run.
BlobRoundTrip ==
    ~isClosed =>
        \A i \in Live(records) :
            /\ GetStream(records[i].uuid).ret = "data"
            /\ GetStream(records[i].uuid).data = SourceOf(records[i])

\* the file is what sync leaves for the table and header in memory
Persisted == \E fill \in Fills : file = SyncFile(file, headers, records, fill)

LiveRecords(recs) == SelectSeq(recs, LAMBDA r : ~isDeleted(r.flags))

\* a step in which open succeeds on a file that was closed just after sync
Reopened ==
    /\ isClosed /\ Persisted
    /\ last'.op = "open" /\ last'.ret = "ok" /\ inst' = inst + 1

\* what Reopened keeps of the table: the live records in their order, with
\* their UUIDs and offsets, the tail, and the DELETED ones staying hidden
ReopenKeepsTable ==
    /\ LiveRecords(records') = LiveRecords(records)
    /\ headers'.start = headers.start
    /\ \A i \in 1..Len(records) :
          isDeleted(records[i].flags) =>
              GetStream(records[i].uuid)'.ret = "null"

\* C2: reopen preserves.  After serialized add/delete calls, sync, close and
\* open with the matching key, the storage holds the same live records in
\* the same order with the same UUIDs, offsets and tocStart, DELETED records
\* stay invisible to get, and get of every live record yields the same bytes
\* as before the close.
ReopenPreserves ==
    [][Reopened =>
        /\ ReopenKeepsTable
        /\ \A i \in Live(records) :
            LET before == ReadRecord(file, headers.key, records[i])
                after == GetStream(records[i].uuid)'
            IN  after.ret = before.ret /\ after.data = before.data]_vars

\* C3: deletion hides.  Once delete(u) has returned true in a session, get(u)
\* yields nothing (null) in every later state of the session, whatever add,
\* delete or sync calls follow.
DeletionHides ==
    \A u \in gone : fd # -1 => GetStream(u).ret = "null"

\* a record that delete flagged is still in the table, behind it a live one,
\* and sync has run since
DeletionHidesWitness ==
    /\ fd # -1 /\ last.op = "sync"
    /\ \E i \in 1..Len(records) :
          /\ records[i].uuid \in gone
          /\ \E j \in Live(records) : j > i

\* a call of add, get, delete or sync made on a closed instance
CallOnClosed ==
    /\ fd = -1 /\ inst' = inst /\ adds' = adds
    /\ last'.op \in {"add", "get", "delete", "sync"}

\* C4: after close() has returned, isClosed stays true for the rest of the
\* instance's life and every later add, get, delete or sync fails with
\* StorageClosed (add as a rejected promise, the others as a raise) without
\* changing records, tocStart or the file.
ClosedIsFinal ==
    [][/\ (fd = -1 /\ inst' = inst) => (fd' = -1 /\ isClosed')
       /\ CallOnClosed =>
            /\ last'.ret = "StorageClosed"
            /\ last'.how = (IF last'.op = "add" THEN "rejected" ELSE "raised")
            /\ UNCHANGED <<records, headers, file>>]_vars

\* delete was called on a closed instance for a record that is live
ClosedIsFinalWitness ==
    /\ fd = -1 /\ last.op = "delete" /\ last.ret = "StorageClosed"
    /\ FindIndex(records, last.uuid) \in Live(records)

\* the step in which the add of slot a is rejected with WriteAborted
AddAborted(a) ==
    /\ adds[a].st = "writing" /\ adds'[a].st = "idle"
    /\ last'.op = "add" /\ last'.ret = "WriteAborted"

\* C5: rollback of a failed add.  When the write stream of an add errors or
\* closes before it finished, the file is cut back to the offset reserved
\* for that add, no record is appended, records and tocStart are what they
\* were before the call, and the storage stays usable: the next add that
\* completes starts at that same tocStart.
FailedAddRollsBack ==
    [][/\ \A a \in Slots :
            AddAborted(a) =>
                /\ file' = SubSeq(file, 1, adds[a].wstart)
                /\ records' = adds[a].preRecs
                /\ headers'.start = adds[a].wstart
                /\ fd' # -1 /\ last'.how = "rejected"
       /\ (last.ret = "WriteAborted" /\ last'.how = "resolved") =>
            /\ records'[Len(records')].start = headers.start
            /\ SubSeq(records', 1, Len(records)) = records]_vars

\* an add was rolled back although bytes of it had reached the file, in a
\* storage that holds records
FailedAddRollsBackWitness ==
    /\ last.op = "add" /\ last.ret = "WriteAborted"
    /\ Len(records) >= 1 /\ Len(file) = headers.start

\* C6: one-slot writer gate.  While an add is in flight the storage admits
\* no second add and no sync: at most one add is pending at a time, and sync
\* never truncates or writes the TOC while an add is pending.
WriterGate ==
    [][/\ Cardinality({a \in Slots : Pending(a)'}) <= 1
       /\ ~(~Quiet /\ last'.op = "sync" /\ last'.how = "returned"
                /\ adds' = adds /\ file' # file)]_vars

SpecFair ==
    /\ Spec
    /\ WF_vars(\E a \in Slots : AddWrite(a) /\ UNCHANGED aux)
    /\ WF_vars(\E a \in Slots : AddFinish(a) /\ UNCHANGED aux)

\* C7: cancellation of add.  If the source errors or is dropped before it
\* ended, the pending add eventually takes the error branch and settles
\* (rejected with WriteAborted, the file cut back); it never stays pending.
CancellationSettles ==
    \A a \in Slots : (adds[a].st = "stalled") ~> (adds[a].st = "idle")

\* C8: concurrent get is safe against live writes.  For every live record r
\* and every add in flight, the reader of get(r) touches only offsets in
\* [r.start, r.end), the writer only offsets at or above tocStart, and the
\* two sets of offsets are disjoint.
ReaderWriterDisjoint ==
    fd # -1 =>
        \A i \in Live(records) : \A a \in Slots :
            adds[a].st = "writing" =>
                LET rd == GetStream(records[i].uuid)
                    wlo == adds[a].wstart
                    whi == adds[a].wstart + adds[a].written
                IN  /\ rd.lo >= records[i].start /\ rd.hi <= records[i].end
                    /\ wlo >= headers.start
                    /\ (rd.hi <= wlo \/ whi <= rd.lo \/ wlo = whi)

\* C9: delete(uuid) returns false exactly when no record has that UUID or
\* the matching record is already DELETED, and then records (every flag
\* included), tocStart and the file are unchanged; a second delete of the
\* same UUID returns false.
DeleteFalse ==
    [][\A uuid \in Uuids :
        (fd # -1 /\ Delete(uuid) /\ last'.op = "delete"
              /\ last'.uuid = uuid) =>
            /\ (last'.ret = "false") <=>
                    (\/ \A i \in 1..Len(records) : records[i].uuid # uuid
                     \/ \E i \in 1..Len(records) :
                            /\ records[i].uuid = uuid
                            /\ BitAnd(records[i].flags, DELETED) # 0)
            /\ last'.ret \in {"true", "false"}
            /\ (last'.ret = "false") =>
                    UNCHANGED <<records, headers, file>>
            /\ uuid \in gone => last'.ret = "false"]_vars

\* delete returned false for a record that an earlier delete had flagged
DeleteFalseWitness ==
    /\ last.op = "delete" /\ last.ret = "false" /\ last.uuid \in gone
    /\ FindIndex(records, last.uuid) # 0

\* the last record added that has not been deleted
LastLive(recs) ==
    IF Live(recs) = {} THEN 0
    ELSE CHOOSE i \in Live(recs) : \A j \in Live(recs) : j <= i

DeleteTrue(uuid) ==
    /\ fd # -1 /\ Delete(uuid)
    /\ last'.op = "delete" /\ last'.uuid = uuid /\ last'.ret = "true"

MaxEnd(recs) ==
    CHOOSE e \in {recs[i].end : i \in 1..Len(recs)} :
        \A i \in 1..Len(recs) : recs[i].end <= e

SyncReturns ==
    /\ fd # -1 /\ last'.op = "sync" /\ last'.how = "returned"
    /\ adds' = adds /\ Sync

\* C14: after every sync that returns, the file length is tocStart plus the
\* length of the encrypted TOC that sync wrote (the TOC is what the file
\* holds from tocStart to its end), whatever the file length was before the
\* call: shorter or longer than tocStart, with or without an older TOC.
SyncSetsLength ==
    [][SyncReturns =>
        \E fill \in Fills :
            LET toc == TocToBinary(records, headers.key, headers.iv, fill)
            IN  /\ Len(file') = headers'.start + Len(toc)
                /\ SubSeq(file', headers'.start + 1, Len(file')) = toc
                /\ Len(toc) = RecordBinLength * Len(records) + AesBlock]_vars

\* sync has returned on a file that was shorter than tocStart: the gap
\* before the TOC holds the zero bytes of the extension
SyncSetsLengthWitness ==
    /\ fd # -1 /\ last.op = "sync" /\ last.how = "returned"
    /\ Len(records) >= 1
    /\ Len(file) > headers.start
    /\ file[headers.start] = ZeroByte

\* what create leaves: an open storage, no records, the tail at 520 and a
\* file of 536 bytes, the header and one padding block of TOC
FreshStorage ==
    /\ fd # -1 /\ ~isClosed
    /\ records = <<>>
    /\ headers.start = 520
    /\ Len(file) = 536

\* C15: immediately after create(path, publicKey) returns, also when path
\* held an older storage file, the storage is open, records is empty,
\* tocStart is 520 and the file length is 536.
CreateLeavesFresh ==
    /\ FreshStorage
    /\ [][(Create /\ last'.op = "create" /\ inst' = inst + 1)
            => FreshStorage']_vars

\* create has run on a path that held the file of an earlier storage, to
\* which records had been added
CreateLeavesFreshWitness ==
    /\ last.op = "create" /\ inst > 1 /\ Quiet
    /\ Len(preSize) >= 1 /\ records = <<>> /\ Len(file) = 536

\* the step in which delete(uuid) returns true through the tail branch
TailDeleteStep ==
    \E uuid \in Uuids :
        /\ FindIndex(records, uuid) # 0
        /\ records[FindIndex(records, uuid)].end = headers.start
        /\ DeleteTrue(uuid)

\* the step in which delete(uuid) returns true by flagging the record
MiddleDeleteStep ==
    \E uuid \in Uuids :
        /\ FindIndex(records, uuid) # 0
        /\ records[FindIndex(records, uuid)].end # headers.start
        /\ DeleteTrue(uuid)

\* the step in which the promise of an add resolves
AddResolved ==
    \E a \in Slots :
        /\ adds[a].st = "writing" /\ adds'[a].st = "idle"
        /\ last'.op = "add" /\ last'.how = "resolved"
        /\ Len(records') = Len(records) + 1

\* C16: monotone tail.  Within one session every step other than a tail
\* delete leaves tocStart unchanged or larger: a completed add strictly
\* increases it, and a failed add, a middle delete, a get and a sync leave it
\* unchanged.
TailMonotone ==
    [][(inst' = inst) =>
        /\ ~TailDeleteStep => headers'.start >= headers.start
        /\ AddResolved => headers'.start > headers.start
        /\ (\E a \in Slots : AddAborted(a)) => headers'.start = headers.start
        /\ MiddleDeleteStep => headers'.start = headers.start
        /\ (last'.op = "get" /\ adds' = adds) => headers'.start = headers.start
        /\ SyncReturns => headers'.start = headers.start]_vars

\* an add has completed and moved the tail forward after a tail delete had
\* moved it back to 520 in the same session
TailMonotoneWitness ==
    /\ fd # -1 /\ last.op = "add" /\ last.how = "resolved"
    /\ gone # {}
    /\ Len(records) = 1 /\ records[1].start = 520
    /\ headers.start > 520

\* C17: records is a read-only snapshot of the record table.  A value
\* obtained from records does not change when a later add or delete of the
\* storage runs, and pushing to or removing from the obtained value does not
\* change the table the storage's own get, delete and sync work on.
RecordsIsSnapshot ==
    [][(held.has /\ held'.has) =>
        /\ (CallerPop \/ CallerPush) => records' = records
        /\ ~(CallerPop \/ CallerPush) => Deref(held)' = Deref(held)]_vars

BadMagic == SubSeq(file, 1, 5) # <<Clear(66), Clear(85), Clear(76), Clear(75), Clear(35)>>
\* the major version, the high nibble of the byte at offset 5, is not 0
BadVersion == file[6] # Clear(file[6][4]) \/ file[6][4] \div 16 # 0

SizeOf(k) == TotalLength(sel.storages[k]) \div 1073741824
CountOf(k) == Len(sel.storages[k])
\* the storages of the last call that are under both limits
Fitting ==
    {k \in 1..Len(sel.storages) :
        CountOf(k) < sel.config.maxFileCount /\ SizeOf(k) < sel.config.maxSize}

\* C20: storage selection.  For every non-empty list of storages and every
\* config, if at least one storage is under both limits then selectStorage
\* returns one that is under both limits: under 'fill' one of greatest size
\* among those, ties broken by the greater file count, under 'spread' one of
\* smallest size, ties broken by the smaller file count, wherever the
\* storages stand in the list.
SelectsFittingStorage ==
    (sel.chosen # 0 /\ Fitting # {}) =>
        LET c == sel.chosen IN
        /\ c \in Fitting
        /\ sel.config.fillPolicy = "fill" =>
              \A k \in Fitting :
                  \/ SizeOf(k) < SizeOf(c)
                  \/ (SizeOf(k) = SizeOf(c) /\ CountOf(k) <= CountOf(c))
        /\ sel.config.fillPolicy = "spread" =>
              \A k \in Fitting :
                  \/ SizeOf(k) > SizeOf(c)
                  \/ (SizeOf(k) = SizeOf(c) /\ CountOf(k) >= CountOf(c))

\* ---------------------------------------------------------------------
\* IOQueue (io.js): tasks are pushed on _waiting and started by doNext;
\* a started task runs until it calls done, which is doNext again.
\* ---------------------------------------------------------------------

\* the timeouts a caller passes to add: none (?? 0), negative, 1 ms, 2 ms
Timeouts == {-1, 0, 1, 2}

\* the task record pushed by add: {type, exec, timeout: timeout ?? 0}
Task(id, timeout) == [id |-> id, timeout |-> timeout]

\* the tasks added so far
QueueSize(q) == Len(q.waiting) + Len(q.started)

\* doNext: nothing to do on an empty queue; otherwise pop the LAST waiting
\* task, arm a timer when its timeout is positive and execute it
doNext(q) ==
    IF Len(q.waiting) = 0 THEN q
    ELSE LET task == q.waiting[Len(q.waiting)]
         IN  [waiting |-> SubSeq(q.waiting, 1, Len(q.waiting) - 1),
              started |-> Append(q.started,
                  [id |-> task.id, timeout |-> task.timeout, age |-> 0,
                   timer |-> IF task.timeout > 0 THEN "armed" ELSE "none",
                   done |-> FALSE, doneAt |-> -1])]

\* add(type, exec, timeout): push, and run doNext when the push made the
\* length 1
IOAdd(timeout) ==
    /\ QueueSize(ioq) < MaxTasks
    /\ LET pushed == [ioq EXCEPT !.waiting =
                          Append(@, Task(QueueSize(ioq) + 1, timeout))]
       IN  ioq' = IF Len(pushed.waiting) = 1 THEN doNext(pushed) ELSE pushed
    /\ UNCHANGED <<storage, held, sel, ses, cod>>

\* a started task calls done, which is doNext
IODone(i) ==
    /\ i \in 1..Len(ioq.started)
    /\ ~ioq.started[i].done
    /\ ioq' = doNext([ioq EXCEPT !.started[i].done = TRUE,
                                 !.started[i].doneAt = ioq.started[i].age])
    /\ UNCHANGED <<storage, held, sel, ses, cod>>

\* the timer of a task is due
Due(t) == t.timer = "armed" /\ t.age >= t.timeout

\* one millisecond passes for every started task; a due timer runs first
IOTick ==
    /\ \A i \in 1..Len(ioq.started) : ~Due(ioq.started[i])
    /\ \E i \in 1..Len(ioq.started) : ioq.started[i].age < MaxAge
    /\ ioq' = [ioq EXCEPT !.started =
                  [i \in 1..Len(ioq.started) |->
                      [ioq.started[i] EXCEPT !.age = Min(@ + 1, MaxAge)]]]
    /\ UNCHANGED <<storage, held, sel, ses, cod>>

\* the timer callback of doNext runs: it throws "IOQueue: Task Timeout!"
\* (nothing clears the timer when the task calls done)
IOTimerFire(i) ==
    /\ i \in 1..Len(ioq.started)
    /\ Due(ioq.started[i])
    /\ ioq' = [ioq EXCEPT !.started[i].timer = "fired"]
    /\ UNCHANGED <<storage, held, sel, ses, cod>>

QueueNext ==
    \/ \E timeout \in Timeouts : IOAdd(timeout)
    \/ \E i \in 1..MaxTasks : IODone(i)
    \/ IOTick
    \/ \E i \in 1..MaxTasks : IOTimerFire(i)

SpecQueue == Init /\ [][QueueNext]_vars

\* C21: a timeout error is produced for a task exactly when the task has a
\* positive timeout and had not called done when that many milliseconds had
\* passed since it was started; a task that called done in time, and a task
\* with timeout <= 0, never produce one.
TimedOut(t) == t.timer = "fired"
FinishedInTime(t) == t.done /\ t.doneAt < t.timeout
TimeoutOnlyWhenLate ==
    \A i \in 1..Len(ioq.started) :
        LET t == ioq.started[i]
        IN  /\ TimedOut(t) => t.timeout > 0 /\ ~FinishedInTime(t)
            /\ t.timeout <= 0 => t.timer = "none"

\* ---------------------------------------------------------------------
\* SessionManager (SessionManagement.js): tokens with a revocation timer.
\* The clock counts milliseconds; revokeTime is given in seconds.
\* ---------------------------------------------------------------------

\* the longest delay a timer of the runtime takes, in milliseconds; a
\* delay above it, or below 1, is replaced by 1
TIMEOUT_MAX == 2147483647

\* the revokeTime values a caller passes: a second, two seconds, 30 days
RevokeTimes == {1, 2, 2592000}

\* the delay of setTimeout(cb, revokeTime * 1000)
TimerDelay(revokeTime) ==
    IF revokeTime > TIMEOUT_MAX \div 1000 \/ revokeTime * 1000 < 1
    THEN 1
    ELSE revokeTime * 1000

\* this.tokens.find(it => it.token === token): its index, 0 for undefined
FindToken(s, token) ==
    IF \E i \in 1..Len(s.tokens) : s.tokens[i].token = token
    THEN CHOOSE i \in 1..Len(s.tokens) :
             /\ s.tokens[i].token = token
             /\ \A j \in 1..(i - 1) : s.tokens[j].token # token
    ELSE 0

\* setTimeout(() => this.logout(token), revokeTime * 1000): a new timer
NewTimer(s, token, revokeTime) ==
    [id |-> s.issued + 1, token |-> token,
     due |-> s.now + TimerDelay(revokeTime)]

\* logout(token) on the token list: findIndex and splice
LogoutTokens(s, token) ==
    IF FindToken(s, token) = 0 THEN s.tokens
    ELSE Splice(s.tokens, FindToken(s, token))

\* what a call handed back
SessionResult(op, token, ret) == [op |-> op, token |-> token, ret |-> ret]

\* login(username, password, revokeTime): null for an unknown user or a
\* wrong password; otherwise a fresh token with its timer is pushed
Login(known, revokeTime) ==
    /\ ses.issued < MaxTimers
    /\ Len(ses.grants) < MaxTokens
    /\ IF ~known
       THEN ses' = [ses EXCEPT !.ret = SessionResult("login", 0, "null")]
       ELSE LET token == Len(ses.grants) + 1
                timer == NewTimer(ses, token, revokeTime)
            IN  ses' = [ses EXCEPT
                    !.tokens = Append(@, [id |-> 1, token |-> token,
                                          timeout |-> timer.id]),
                    !.timers = @ \cup {timer},
                    !.issued = @ + 1,
                    !.grants = Append(@, [base |-> ses.now,
                                          secs |-> revokeTime,
                                          out |-> FALSE, ran |-> FALSE]),
                    !.ret = SessionResult("login", token, "token")]
    /\ UNCHANGED <<storage, held, sel, ioq, cod>>

\* logout(token): removes the token, true; false when it is not there.
\* The timer of the token is left running.
Logout(token) ==
    /\ ses' = [ses EXCEPT
           !.tokens = LogoutTokens(ses, token),
           !.grants = [i \in 1..Len(@) |->
                          IF i = token /\ FindToken(ses, token) # 0
                          THEN [@[i] EXCEPT !.out = TRUE] ELSE @[i]],
           !.ret = SessionResult("logout", token,
                       IF FindToken(ses, token) = 0 THEN "false" ELSE "true")]
    /\ UNCHANGED <<storage, held, sel, ioq, cod>>

\* refresh(token, revokeTime): false for an unknown token; otherwise the
\* timer of the token is cleared and a new one is set, true
Refresh(token, revokeTime) ==
    /\ ses.issued < MaxTimers
    /\ LET i == FindToken(ses, token)
           timer == NewTimer(ses, token, revokeTime)
       IN  IF i = 0
           THEN ses' = [ses EXCEPT
                    !.ret = SessionResult("refresh", token, "false")]
           ELSE ses' = [ses EXCEPT
                    !.timers = {t \in @ : t.id # ses.tokens[i].timeout}
                                   \cup {timer},
                    !.tokens[i].timeout = timer.id,
                    !.issued = @ + 1,
                    !.grants[token] = [base |-> ses.now, secs |-> revokeTime,
                                       out |-> FALSE, ran |-> FALSE],
                    !.ret = SessionResult("refresh", token, "true")]
    /\ UNCHANGED <<storage, held, sel, ioq, cod>>

\* validateToken(token): the token's entry, or undefined
ValidateToken(token) ==
    /\ ses' = [ses EXCEPT !.ret = SessionResult("validateToken", token,
                   IF FindToken(ses, token) = 0 THEN "undefined" ELSE "entry")]
    /\ UNCHANGED <<storage, held, sel, ioq, cod>>

\* a timer that is due runs its callback, this.logout(token)
TimerFire(t) ==
    /\ t \in ses.timers
    /\ t.due <= ses.now
    /\ ses' = [ses EXCEPT
           !.timers = @ \ {t},
           !.tokens = LogoutTokens(ses, t.token),
           !.grants = [i \in 1..Len(@) |->
                          IF i = t.token /\ FindToken(ses, t.token) # 0
                          THEN [@[i] EXCEPT !.ran = TRUE] ELSE @[i]],
           !.ret = SessionResult("timer", t.token,
                       IF FindToken(ses, t.token) = 0 THEN "false" ELSE "true")]
    /\ UNCHANGED <<storage, held, sel, ioq, cod>>

\* time passes, up to the next timer that is due or by half a second
Advance(to) ==
    /\ to > ses.now
    /\ to <= MaxClock
    /\ \A t \in ses.timers : to <= t.due
    /\ ses' = [ses EXCEPT !.now = to]
    /\ UNCHANGED <<storage, held, sel, ioq, cod>>

SessionNext ==
    \/ \E known \in BOOLEAN, revokeTime \in RevokeTimes :
           Login(known, revokeTime)
    \/ \E token \in 1..MaxTokens : Logout(token)
    \/ \E token \in 1..MaxTokens, revokeTime \in RevokeTimes :
           Refresh(token, revokeTime)
    \/ \E token \in 1..MaxTokens : ValidateToken(token)
    \/ \E t \in ses.timers : TimerFire(t)
    \/ \E to \in {t.due : t \in ses.timers} \cup {ses.now + 500} : Advance(to)

SpecSession == Init /\ [][SessionNext]_vars

\* C22: a token is accepted by validateToken at every moment before it is
\* logged out and before revokeTime seconds have passed since its login or
\* its last successful refresh; a live token has exactly one deadline (a
\* refresh cancels the earlier one) and refresh on it returns true; after
\* logout or expiry the token is gone for good: validateToken returns
\* undefined and refresh returns false.
Accepted(token) == FindToken(ses, token) # 0
InWindow(g) == ~g.out /\ (ses.now - g.base) \div 1000 < g.secs
Revoked(g) == g.out \/ g.ran
TokenWindow ==
    \A token \in 1..Len(ses.grants) :
        LET g == ses.grants[token]
        IN  /\ InWindow(g) => Accepted(token)
            /\ Accepted(token) =>
                   Cardinality({t \in ses.timers : t.token = token}) = 1
            /\ Revoked(g) => ~Accepted(token)
            /\ ses.ret.token = token /\ ses.ret.op = "validateToken" =>
                   (ses.ret.ret = "entry") = Accepted(token)
            /\ ses.ret.token = token /\ ses.ret.op = "refresh" =>
                   (ses.ret.ret = "true") = Accepted(token)

\* C23: reserved start of add.  In the step in which an add resolves, the
\* record it resolves with starts at the value tocStart had when add was
\* called (the offset its ciphertext was written at), ends at start plus
\* the number of ciphertext bytes written, is the last element of records
\* with flags 0, and tocStart equals its end - also when another add or a
\* delete ran while the add was in flight.
ResolvedAtReservedStart(a) ==
    LET r == records'[Len(records')]
    IN  /\ r.start = adds[a].wstart
        /\ r.end = r.start + adds[a].written
        /\ r.flags = 0
        /\ headers'.start = r.end
AddKeepsReservedStart ==
    [][\A a \in Slots :
          (/\ adds[a].st = "writing" /\ adds'[a].st = "idle"
           /\ last'.op = "add" /\ last'.how = "resolved"
           /\ Len(records') = Len(records) + 1)
          => ResolvedAtReservedStart(a)]_vars

\* C24: exclusive read range of get.  For a live record the stream get
\* returns feeds the decryptor exactly the file bytes at the offsets o with
\* start <= o < end, end - start bytes, and never the byte at offset end,
\* whatever follows the record in the file.
GetReadsExactRange ==
    \A uuid \in Uuids :
        LET i == FindIndex(records, uuid)
            s == GetStream(uuid)
        IN  (~isClosed /\ i # 0 /\ s.ret \notin {"null", "StorageClosed"})
            => /\ s.lo = records[i].start
               /\ s.hi = records[i].end
               /\ s.hi - s.lo = records[i].end - records[i].start

ReopenYieldsSame ==
    \A pair \in KeyPairs :
        LET h == HeaderFrom(ReadAt(file, 0, HeaderBinLength), pair)
        IN  h.ok =>
                LET toc == TocFrom(ReadAt(file, h.h.start,
                                          Len(file) - h.h.start),
                                   h.h.key, h.h.iv)
                IN  /\ Len(file) >= h.h.start
                    /\ toc.ok
                    /\ toc.recs = records
                    /\ h.h.start = headers.start

\* C26: a persisted storage survives an idle session.  If a file persisted
\* by sync is opened and then closed with no add, delete or sync in between,
\* a subsequent open with the same keys succeeds and yields the same records
\* and tocStart as the first open.
IdleSessionKeepsStorage ==
    [][(/\ last.op = "open" /\ last.ret = "ok"
        /\ last'.op = "close" /\ last'.how = "returned")
       => ReopenYieldsSame']_vars

\* C27: close during an add in flight.  If close() is called while an add
\* has started and not finished, the promise of that add is eventually
\* rejected - it does not stay pending and its error handler does not fail -
\* and no record is appended: records and tocStart keep their values.
CloseRejectsPendingAdd ==
    /\ \A a \in Slots :
           (isClosed /\ adds[a].st = "writing")
               ~> (adds[a].st = "idle" /\ last.op = "add"
                   /\ last.how = "rejected")
    /\ [][\A a \in Slots :
            (isClosed /\ adds[a].st = "writing" /\ adds'[a].st # "writing")
            => /\ adds'[a].st = "idle"
               /\ last'.op = "add" /\ last'.how = "rejected"
               /\ records' = records
               /\ headers'.start = headers.start]_vars

OpenPostcondition ==
    [][(/\ isClosed /\ last'.op = "open" /\ last'.how = "returned"
        /\ inst' = inst + 1)
       => \E pair \in KeyPairs :
            LET h == HeaderFrom(ReadAt(file, 0, HeaderBinLength), pair)
                toc == TocFrom(ReadAt(file, h.h.start, Len(file) - h.h.start),
                               h.h.key, h.h.iv)
            IN  /\ h.ok /\ toc.ok
                /\ fd' # -1
                /\ records' = toc.recs
                /\ headers'.start = h.h.start
                /\ Len(file') = headers'.start
                /\ file' = SubSeq(file, 1, h.h.start)]_vars

\* open has returned on a file that held a table of two records
OpenPostconditionWitness ==
    /\ fd # -1 /\ last.op = "open" /\ last.how = "returned" /\ inst > 1
    /\ Len(records) = 2 /\ Len(file) = headers.start
    /\ headers.start = records[2].end

\* what a step may do to the records of one storage file
RecordSteps ==
    /\ \A j \in 1..Len(records') : records'[j].flags \in {0, DELETED}
    /\ \A uuid \in Uuids :
          LET i == FindIndex(records, uuid)
              j == FindIndex(records', uuid)
          IN  /\ (i # 0 /\ isDeleted(records[i].flags)) =>
                     (j # 0 /\ records'[j] = records[i])
              /\ (i = 0 /\ BufId(uuid) <= Len(preSize)) => j = 0
              /\ (i # 0 /\ j # 0) =>
                     records'[j].flags \in {records[i].flags, DELETED}

FailedOpenKeepsFile ==
    [][(/\ isClosed /\ last'.op = "open" /\ last'.how = "raised"
        /\ adds' = adds
        /\ Open) =>
            /\ file' = file
            /\ fd' = -1 /\ inst' = inst
            /\ UNCHANGED <<headers, records>>]_vars

\* open has failed on the table of a file whose header it could decode: the
\* blob of an add that no sync followed lies where the header says the TOC is
FailedOpenKeepsFileWitness ==
    /\ fd = -1 /\ last.op = "open" /\ last.ret = "CryptoFailure"
    /\ Len(records) >= 1 /\ Len(file) = headers.start
    /\ \E pair \in KeyPairs :
           HeaderFrom(ReadAt(file, 0, HeaderBinLength), pair).ok

\* delete has just returned true and no record of the table is live
Emptied ==
    /\ fd # -1 /\ Quiet
    /\ last.op = "delete" /\ last.ret = "true"
    /\ Live(records) = {}

Running == {i \in 1..Len(ioq.started) : ~ioq.started[i].done}

\* C34: the I/O queue runs one task at a time.  A task added while an
\* earlier task has been started and has not called done is not started
\* before that task calls done: no two tasks of one queue are executing at
\* the same time.
OneTaskAtATime ==
    /\ Cardinality(Running) <= 1
    /\ \A i \in Running : \A j \in 1..Len(ioq.started) :
           j < i => ioq.started[j].done


\* ------------------------------------------- filerecord.js: 256-byte layout
RecordBinLength256 == 256

\* new FileRecord(uuid, start, end, key, iv, crc, md5, sha, ctime, flags) of
\* filerecord.js; ctime is the Date in milliseconds, flags the value of the
\* RecordFlags object
FileRecord256(uuid, start, end, key, iv, crc, md5, sha, ctime, flags) ==
    IF start >= end THEN InvalidRecord
    ELSE IF Len(iv) < 16 THEN InvalidRecord
    ELSE [ok |-> TRUE,
          rec |-> [uuid |-> uuid, start |-> start, end |-> end, key |-> key,
                   iv |-> iv, crc |-> crc, md5 |-> md5, sha |-> sha,
                   ctime |-> ctime, flags |-> flags]]

\* FileRecord.prototype.toBinary of filerecord.js: bytes 142..255 are zero
Record256ToBinary(r) ==
    r.uuid \o Int64LE(r.start) \o Int64LE(r.end) \o r.key \o r.iv \o r.crc
        \o r.md5 \o r.sha \o Int64LE(r.ctime) \o UInt16LE(r.flags)
        \o Rep(RecordBinLength256 - 142, 0)

\* FileRecord.from of filerecord.js
Record256From(buf) ==
    FileRecord256(SubSeq(buf, 1, 16),
                  ReadInt64LE(SubSeq(buf, 17, 24)),
                  ReadInt64LE(SubSeq(buf, 25, 32)),
                  SubSeq(buf, 33, 64),
                  SubSeq(buf, 65, 80),
                  SubSeq(buf, 81, 84),
                  SubSeq(buf, 85, 100),
                  SubSeq(buf, 101, 132),
                  ReadInt64LE(SubSeq(buf, 133, 140)),
                  ReadUInt16LE(SubSeq(buf, 141, 142)))

\* FileRecord.many of filerecord.js
Record256Many(buf) ==
    LET n == Len(buf) \div RecordBinLength256
        chunk(i) == SubSeq(buf, (i - 1) * RecordBinLength256 + 1,
                           i * RecordBinLength256)
    IN  IF \E i \in 1..n : ~Record256From(chunk(i)).ok
        THEN [ok |-> FALSE, recs |-> <<>>]
        ELSE [ok |-> TRUE,
              recs |-> [i \in 1..n |-> Record256From(chunk(i)).rec]]

RECURSIVE ConcatImages256(_)
ConcatImages256(toc) ==
    IF Len(toc) = 0 THEN <<>>
    ELSE Record256ToBinary(Head(toc)) \o ConcatImages256(Tail(toc))

\* FileRecord.TableOfContents.toBinary of filerecord.js
Toc256ToBinary(toc, key, iv) == AesEncrypt(ConcatImages256(toc), key, iv)

\* FileRecord.TableOfContents.from of filerecord.js
Toc256From(buf, key, iv) ==
    LET d == AesDecrypt(buf, key, iv)
    IN  IF d.ok THEN Record256Many(d.data) ELSE [ok |-> FALSE, recs |-> <<>>]


\* an optional argument: <<>> when it is left out, <<v>> when v is given;
\* opt ?? default
OrElse(opt, default) == IF opt = <<>> THEN default ELSE opt[1]

\* FileRecord.create(start, end, flags) of bulk.js; n numbers the random
\* UUID and IV
RecordCreate(start, end, flags, n) ==
    FileRecord(UuidOf(n), start, end, IvOf(n), OrElse(flags, 0))

\* FileRecord.create(options) of filerecord.js with the options start and
\* end; n numbers the random UUID, key and IV, now is the time of the call
Record256Create(start, end, n, now) ==
    LET s0 == OrElse(start, 0)
        e0 == OrElse(end, s0 + 1)
    IN  FileRecord256(UuidOf(n), s0, e0, KeyOf(n), IvOf(n), Rep(4, 0),
                      Rep(16, 0), Rep(32, 0), now, 0)

\* ------------------------------------------------------- the codec functions
\* The functions of bulk.js and filerecord.js that convert records, tables
\* and headers to bytes and back, called on their own as the tests call them:
\* cod holds the arguments (src), the image (img) and the decoded result (ret).
CodecFills == 0..MaxCodecFill
CodecKeys == {KeyOf(5), KeyOf(6)}
CodecIvs == {IvOf(7)}

\* the TOC starts handed to new Header(key, iv, start)
HeaderStarts == {-1, 0, 520, 2147483647}

\* the arguments of new FileRecord(...) of bulk.js, valid or not
RawRecords ==
    [uuid : {UuidOf(1), UuidOf(2)}, start : {0, 520}, end : {10, 536},
     iv : {IvOf(3)}, flags : {0, 2, 32769}]

ValidRecord(r) == FileRecord(r.uuid, r.start, r.end, r.iv, r.flags).ok

\* the records the constructor of bulk.js accepts
CodecRecords == {r \in RawRecords : ValidRecord(r)}

\* the arguments of the calls of the constructor and of create
CtorArgs ==
    [uuid : {UuidOf(1)}, start : {0, 10}, end : {5, 10, 536},
     iv : {IvOf(3), Rep(15, 3), <<>>}, flags : {0, 2}]
CreateStarts == {0, 10}
CreateEnds == {5, 10, 536}
CreateOptions == [start : {<<>>, <<0>>, <<10>>}, end : {<<>>, <<0>>, <<5>>, <<10>>}]

\* the starting values of a RecordFlags object: the values below 16, every
\* single FlagState bit and the values around the full 16-bit mask
FlagValues ==
    (0..15) \cup {16, 32, 64, 128, 256, 512, 1024, 2048, 4096, 8192, 16384,
                  32768, 32769, 32770, 65532, 65533, 65534, 65535}

\* the sequences of at most n members of a set
SeqsUpTo(S, n) == UNION {[1..k -> S] : k \in 0..n}

\* the arguments of new FileRecord(...) of filerecord.js, valid or not
RawRecords256 ==
    [uuid : {UuidOf(1), UuidOf(2)}, start : {0, 520}, end : {10, 536},
     key : {KeyOf(4)}, iv : {IvOf(3)}, crc : {Rep(4, 9)},
     md5 : {Rep(16, 10)}, sha : {Rep(32, 11)}, ctime : {0, 2147483647},
     flags : {0, 2}]

ValidRecord256(r) ==
    FileRecord256(r.uuid, r.start, r.end, r.key, r.iv, r.crc, r.md5, r.sha,
                  r.ctime, r.flags).ok

CodecRecords256 == {r \in RawRecords256 : ValidRecord256(r)}

\* what cod holds after a call
Called(op, src, img, ret) == [op |-> op, src |-> src, img |-> img, ret |-> ret]

\* the caller drops the values of the last calls
CodecDone ==
    /\ cod # NoCodec
    /\ cod' = NoCodec
    /\ UNCHANGED <<storage, held, sel, ioq, ses>>

\* TableOfContents.toBinary(toc, key, iv) of bulk.js
TocToBinaryCall(toc, key, iv, fill) ==
    /\ cod = NoCodec
    /\ cod' = Called("toc.toBinary", [toc |-> toc, key |-> key, iv |-> iv],
                     TocToBinary(toc, key, iv, fill), <<>>)
    /\ UNCHANGED <<storage, held, sel, ioq, ses>>

\* TableOfContents.from(image, key, iv) of bulk.js on the image just made
TocFromCall ==
    /\ cod.op = "toc.toBinary"
    /\ cod' = Called("toc.from", cod.src, cod.img,
                     TocFrom(cod.img, cod.src.key, cod.src.iv))
    /\ UNCHANGED <<storage, held, sel, ioq, ses>>

\* FileRecord.TableOfContents.toBinary(toc, key, iv) of filerecord.js
Toc256ToBinaryCall(toc, key, iv) ==
    /\ cod = NoCodec
    /\ cod' = Called("toc256.toBinary", [toc |-> toc, key |-> key, iv |-> iv],
                     Toc256ToBinary(toc, key, iv), <<>>)
    /\ UNCHANGED <<storage, held, sel, ioq, ses>>

\* FileRecord.TableOfContents.from(image, key, iv) of filerecord.js
Toc256FromCall ==
    /\ cod.op = "toc256.toBinary"
    /\ cod' = Called("toc256.from", cod.src, cod.img,
                     Toc256From(cod.img, cod.src.key, cod.src.iv))
    /\ UNCHANGED <<storage, held, sel, ioq, ses>>

\* records.map(record => record.toBinary()) of bulk.js, concatenated
ToBinaryCall(recs, fill) ==
    /\ cod = NoCodec
    /\ cod' = Called("toBinary", recs, ConcatImages(recs, fill), <<>>)
    /\ UNCHANGED <<storage, held, sel, ioq, ses>>

\* FileRecord.many of bulk.js on the buffer just made
ManyCall ==
    /\ cod.op = "toBinary"
    /\ cod' = Called("many", cod.src, cod.img, RecordMany(cod.img))
    /\ UNCHANGED <<storage, held, sel, ioq, ses>>

\* records.map(record => record.toBinary()) of filerecord.js, concatenated
ToBinary256Call(recs) ==
    /\ cod = NoCodec
    /\ cod' = Called("toBinary256", recs, ConcatImages256(recs), <<>>)
    /\ UNCHANGED <<storage, held, sel, ioq, ses>>

\* FileRecord.many of filerecord.js on the buffer just made
Many256Call ==
    /\ cod.op = "toBinary256"
    /\ cod' = Called("many256", cod.src, cod.img, Record256Many(cod.img))
    /\ UNCHANGED <<storage, held, sel, ioq, ses>>

\* new Header(key, iv, start).toBinary(publicKey) of a key pair
HeaderToBinaryCall(key, iv, start, pair, fill) ==
    /\ cod = NoCodec
    /\ cod' = Called("header.toBinary",
                     [h |-> Header(key, iv, start), pair |-> pair, fill |-> fill],
                     HeaderToBinary(Header(key, iv, start), pair, fill), <<>>)
    /\ UNCHANGED <<storage, held, sel, ioq, ses>>

\* Header.from(image, privateKey, passphrase) with the key of the same pair
HeaderFromCall ==
    /\ cod.op = "header.toBinary"
    /\ cod' = Called("header.from", cod.src, cod.img,
                     HeaderFrom(cod.img, cod.src.pair))
    /\ UNCHANGED <<storage, held, sel, ioq, ses>>

\* new FileRecord(uuid, start, end, iv, flags) of bulk.js
NewRecordCall(a) ==
    /\ cod = NoCodec
    /\ cod' = Called("new", a, <<>>,
                     FileRecord(a.uuid, a.start, a.end, a.iv, a.flags))
    /\ UNCHANGED <<storage, held, sel, ioq, ses>>

\* FileRecord.create(start, end, flags) of bulk.js
CreateRecordCall(start, end, flags) ==
    /\ cod = NoCodec
    /\ cod' = Called("create", [start |-> start, end |-> end, flags |-> flags],
                     <<>>, RecordCreate(start, end, flags, 1))
    /\ UNCHANGED <<storage, held, sel, ioq, ses>>

\* FileRecord.create(options) of filerecord.js
CreateRecord256Call(options) ==
    /\ cod = NoCodec
    /\ cod' = Called("create256", options, <<>>,
                     Record256Create(options.start, options.end, 1, 0))
    /\ UNCHANGED <<storage, held, sel, ioq, ses>>

\* a buffer of record images that was not made by toBinary: some image of
\* it holds a start that is not before its end
BufferCall(raws, fill) ==
    /\ cod = NoCodec
    /\ \E i \in 1..Len(raws) : ~ValidRecord(raws[i])
    /\ cod' = Called("buffer", raws, ConcatImages(raws, fill), <<>>)
    /\ UNCHANGED <<storage, held, sel, ioq, ses>>

\* FileRecord.from of bulk.js on a buffer of one image
BufferFromCall ==
    /\ cod.op = "buffer"
    /\ Len(cod.src) = 1
    /\ cod' = Called("buffer.from", cod.src, cod.img, RecordFrom(cod.img))
    /\ UNCHANGED <<storage, held, sel, ioq, ses>>

\* FileRecord.many of bulk.js on such a buffer
BufferManyCall ==
    /\ cod.op = "buffer"
    /\ cod' = Called("buffer.many", cod.src, cod.img, RecordMany(cod.img))
    /\ UNCHANGED <<storage, held, sel, ioq, ses>>

\* new RecordFlags(flags), with or without the argument
NewFlagsCall(flags) ==
    /\ cod = NoCodec
    /\ cod' = Called("flags", [start |-> flags, toggles |-> <<>>], <<>>,
                     RecordFlags(flags))
    /\ UNCHANGED <<storage, held, sel, ioq, ses>>

\* flags.toggleBusy()
ToggleBusyCall ==
    /\ cod.op = "flags"
    /\ Len(cod.src.toggles) < MaxToggles
    /\ cod' = Called("flags", [cod.src EXCEPT !.toggles = Append(@, 0)], <<>>,
                     toggleBusy(cod.ret))
    /\ UNCHANGED <<storage, held, sel, ioq, ses>>

\* flags.toggleDeleted()
ToggleDeletedCall ==
    /\ cod.op = "flags"
    /\ Len(cod.src.toggles) < MaxToggles
    /\ cod' = Called("flags", [cod.src EXCEPT !.toggles = Append(@, 1)], <<>>,
                     toggleDeleted(cod.ret))
    /\ UNCHANGED <<storage, held, sel, ioq, ses>>

CodecNext ==
    \/ \E recs \in SeqsUpTo(CodecRecords, MaxCodecRecords),
          fill \in CodecFills : ToBinaryCall(recs, fill)
    \/ ManyCall
    \/ \E recs \in SeqsUpTo(CodecRecords256, MaxCodecRecords) :
            ToBinary256Call(recs)
    \/ Many256Call
    \/ \E toc \in SeqsUpTo(CodecRecords, MaxCodecRecords),
          key \in CodecKeys, iv \in CodecIvs, fill \in CodecFills :
            TocToBinaryCall(toc, key, iv, fill)
    \/ TocFromCall
    \/ \E toc \in SeqsUpTo(CodecRecords256, MaxCodecRecords),
          key \in CodecKeys, iv \in CodecIvs : Toc256ToBinaryCall(toc, key, iv)
    \/ Toc256FromCall
    \/ \E key \in CodecKeys, iv \in CodecIvs, start \in HeaderStarts,
          pair \in KeyPairs, fill \in CodecFills :
            HeaderToBinaryCall(key, iv, start, pair, fill)
    \/ HeaderFromCall
    \/ \E a \in CtorArgs : NewRecordCall(a)
    \/ \E start \in CreateStarts, end \in CreateEnds, flags \in {<<>>, <<2>>} :
            CreateRecordCall(start, end, flags)
    \/ \E options \in CreateOptions : CreateRecord256Call(options)
    \/ \E raws \in SeqsUpTo(RawRecords, MaxCodecRecords), fill \in CodecFills :
            BufferCall(raws, fill)
    \/ BufferFromCall
    \/ BufferManyCall
    \/ \E flags \in {<<>>} \cup {<<v>> : v \in FlagValues} : NewFlagsCall(flags)
    \/ ToggleBusyCall
    \/ ToggleDeletedCall
    \/ CodecDone

SpecCodec == Init /\ [][CodecNext]_vars

\* C35: the encrypted table of n records, which is what sync writes at the
\* TOC start, is 256 * n + 16 bytes long
TocSizeIs256nPlus16 ==
    cod.op \in {"toc.toBinary", "toc256.toBinary"}
        => Len(cod.img) = 256 * Len(cod.src.toc) + 16


\* C36: FileRecord.many applied to the concatenated images of a sequence of
\* valid records returns the same records, field by field and in the same
\* order, in the 128-byte layout and in the 256-byte layout
RecordRoundTrip ==
    /\ cod.op = "many" => cod.ret = [ok |-> TRUE, recs |-> cod.src]
    /\ cod.op = "many256" => cod.ret = [ok |-> TRUE, recs |-> cod.src]

\* two different records, one of them flagged, have been encoded and parsed
RecordRoundTripWitness ==
    /\ cod.op = "many"
    /\ Len(cod.src) = 2
    /\ cod.src[1].uuid # cod.src[2].uuid
    /\ cod.src[1].start # cod.src[2].start
    /\ cod.src[2].flags = 32769
    /\ Len(cod.img) = 2 * RecordBinLength
    /\ cod.img[51] = 1


\* C37: TableOfContents.from of the image made by TableOfContents.toBinary,
\* under the same key and IV, returns the records that were encoded: same
\* length, order and fields, the empty table included
TocRoundTrip ==
    /\ cod.op = "toc.from" => cod.ret = [ok |-> TRUE, recs |-> cod.src.toc]
    /\ cod.op = "toc256.from" => cod.ret = [ok |-> TRUE, recs |-> cod.src.toc]

\* a table of two different records has been encrypted and decoded
TocRoundTripWitness ==
    /\ cod.op = "toc.from"
    /\ Len(cod.src.toc) = 2
    /\ cod.src.toc[1] # cod.src.toc[2]
    /\ cod.src.key = KeyOf(6)
    /\ Len(cod.img) = 2 * RecordBinLength + AesBlock
    /\ cod.ret.ok


\* C38: decoding the 520-byte image of Header(k, iv, s).toBinary(pub) with
\* the private key of the same pair gives a header with the same key, IV and
\* start, whatever the random padding is
HeaderRoundTrip ==
    cod.op = "header.from"
        => /\ Len(cod.img) = HeaderBinLength
           /\ cod.ret = [ok |-> TRUE, err |-> "", h |-> cod.src.h]

\* a header with a TOC start behind the header has been encoded with a
\* non-zero padding and decoded
HeaderRoundTripWitness ==
    /\ cod.op = "header.from"
    /\ cod.src.h.start = HeaderBinLength
    /\ cod.src.fill = 1
    /\ cod.src.pair = 2
    /\ cod.ret.ok


BitsOf(v) == {b \in 0..15 : (v \div (2 ^ b)) % 2 = 1}

\* the reference model after the toggles ts: a bit is set when it was set at
\* the start and has been toggled an even number of times, or was clear and
\* has been toggled an odd number of times
RefBits(v, ts) ==
    {b \in 0..15 :
        (b \in BitsOf(v)) = (Cardinality({i \in 1..Len(ts) : ts[i] = b}) % 2 = 0)}

\* C40: for every starting value and every sequence of toggles the flags
\* object agrees with the 16-bit reference model: the value holds exactly the
\* bits of the model, isNormal is true iff no bit is set, isBusy iff bit 0 is
\* set, isDeleted iff bit 1 is set, and a value with DELETED set is not
\* normal; since the value follows the model after every toggle, a toggle
\* flips its own bit only and two equal toggles cancel
FlagsAgreeWithBitField ==
    cod.op = "flags"
        => LET ref == RefBits(RecordFlags(cod.src.start), cod.src.toggles)
           IN  /\ cod.ret \in 0..65535
               /\ BitsOf(cod.ret) = ref
               /\ isNormal(cod.ret) = (ref = {})
               /\ isBusy(cod.ret) = (0 \in ref)
               /\ isDeleted(cod.ret) = (1 \in ref)
               /\ isDeleted(cod.ret) => ~isNormal(cod.ret)

\* a flags object that started with the high bit and BUSY set has had BUSY
\* toggled twice and DELETED once
FlagsAgreeWitness ==
    /\ cod.op = "flags"
    /\ cod.src.start = <<32769>>
    /\ cod.src.toggles = <<0, 1, 0>>
    /\ cod.ret = 32771
====
